---- MODULE Spec2Model ----
(***************************************************************************)
(* dat_creator.py: scan a directory tree, fold every relative path into    *)
(* (dirs, game, rom), hash the file and insert a <rom> under cached <dir>  *)
(* and <game> elements; the document is written in a finally block.        *)
(*                                                                         *)
(* Strings are sequences of one-character strings, so that join, split and *)
(* splitext are computed character by character.                           *)
(***************************************************************************)
EXTENDS Integers, Sequences, FiniteSets, TLC

\* ------------------------------------------------------------------ bounds
MaxFiles == 2      \* files in the source tree
MaxSegs  == 2      \* path segments of a file below the root
MaxDepth == 2      \* largest --game-depth tried

\* File and folder names that occur in the modelled trees.
Names == { <<"x">>, <<"x", ".", "t">> }

\* Values of --name: unset (empty) or "x".
NameOptions == { <<>>, <<"x">> }

\* ----------------------------------------------------------- string helpers
Min(a, b) == IF a < b THEN a ELSE b
Max(a, b) == IF a > b THEN a ELSE b

\* Code point of a character (Python compares str by code point).
Ord(c) ==
  CASE c = "." -> 46
    [] c = "/" -> 47
    [] c = "A" -> 65
    [] c = "D" -> 68
    [] c = "T" -> 84
    [] c = "t" -> 116
    [] c = "x" -> 120

RECURSIVE StrLess(_, _)
StrLess(s, t) ==
  IF t = <<>> THEN FALSE
  ELSE IF s = <<>> THEN TRUE
  ELSE IF Ord(Head(s)) # Ord(Head(t)) THEN Ord(Head(s)) < Ord(Head(t))
  ELSE StrLess(Tail(s), Tail(t))

\* list.sort() on a set of distinct names.
RECURSIVE SortNames(_)
SortNames(S) ==
  IF S = {} THEN <<>>
  ELSE LET m == CHOOSE x \in S : \A y \in S \ {x} : StrLess(x, y)
       IN <<m>> \o SortNames(S \ {m})

\* "/".join(parts)
RECURSIVE JoinSlash(_)
JoinSlash(parts) ==
  IF parts = <<>> THEN <<>>
  ELSE IF Len(parts) = 1 THEN parts[1]
  ELSE parts[1] \o <<"/">> \o JoinSlash(Tail(parts))

\* s.split("/")
RECURSIVE SplitSlash(_)
SplitSlash(s) ==
  IF \A i \in 1..Len(s) : s[i] # "/" THEN <<s>>
  ELSE LET k == CHOOSE i \in 1..Len(s) :
                  s[i] = "/" /\ \A j \in 1..(i - 1) : s[j] # "/"
       IN <<SubSeq(s, 1, k - 1)>> \o SplitSlash(SubSeq(s, k + 1, Len(s)))

\* s.rfind(c), 1-based, 0 when absent
RFind(s, c) ==
  IF \E i \in 1..Len(s) : s[i] = c
  THEN CHOOSE i \in 1..Len(s) : s[i] = c /\ \A j \in (i + 1)..Len(s) : s[j] # c
  ELSE 0

\* os.path.splitext(p)[0] (posixpath): the extension starts at the last dot
\* after the last slash, unless only dots precede it in the file name.
SplitextRoot(p) ==
  LET sepIndex == RFind(p, "/")
      dotIndex == RFind(p, ".")
  IN IF dotIndex > sepIndex
        /\ \E k \in (sepIndex + 1)..(dotIndex - 1) : p[k] # "."
     THEN SubSeq(p, 1, dotIndex - 1)
     ELSE p

\* Python slices parts[:n] and parts[n:]
Take(parts, n) == SubSeq(parts, 1, Min(n, Len(parts)))
Drop(parts, n) == SubSeq(parts, n + 1, Len(parts))
Last(s) == s[Len(s)]
Front(s) == SubSeq(s, 1, Len(s) - 1)

\* ------------------------------------------------------------- source trees
SegPaths == UNION { [1..k -> Names] : k \in 1..MaxSegs }

IsProperPrefix(p, q) == Len(p) < Len(q) /\ SubSeq(q, 1, Len(p)) = p

\* A name is a file or a folder, never both.
Consistent(S) == \A p \in S : \A q \in S : ~IsProperPrefix(p, q)

RECURSIVE SetsUpTo(_)
SetsUpTo(k) ==
  IF k = 0 THEN { {} }
  ELSE LET prev == SetsUpTo(k - 1)
       IN prev \cup { S \cup {p} : S \in prev, p \in SegPaths }

Trees == { S \in SetsUpTo(MaxFiles) : Consistent(S) }

\* Folders of a tree, the root (<<>>) included.
DirsOf(S) == UNION { { SubSeq(p, 1, k) : k \in 0..(Len(p) - 1) } : p \in S }

Configs ==
  [ game_depth : 0..MaxDepth,
    loose_files : {"strip", "parent"},
    strip : BOOLEAN,
    name : NameOptions ]

VARIABLES
  cfg,         \* argparse namespace a: game_depth, loose_files, strip, name
  fs,          \* the regular files under the source root (segment lists)
  denied,      \* folders os.scandir cannot list
  pc,          \* position in main / build_dat
  files,       \* discover's result: sequence of [rel_fp, parts]
  idx,         \* items taken from the iterator so far
  cur,         \* the item of the current iteration
  dirs, game, rom,     \* locals of the loop body
  lvl, parent,         \* the <dir> loop
  nodes,       \* elements under root_el in creation order
  dir_cache, game_cache, g_global,
  done,        \* items whose <rom> has been appended
  exc,         \* exception in flight
  out,         \* the file at out_path
  result       \* how the process ended

vars == << cfg, fs, denied, pc, files, idx, cur, dirs, game, rom, lvl, parent,
           nodes, dir_cache, game_cache, g_global, done, exc, out, result >>

NoItem == [rel_fp |-> <<>>, parts |-> <<>>]
NoDoc  == [status |-> "absent", nodes |-> <<>>]

Init ==
  /\ cfg \in Configs
  /\ fs \in Trees
  /\ denied = {}
  /\ pc = "discover"
  /\ files = <<>>
  /\ idx = 0
  /\ cur = NoItem
  /\ dirs = <<>> /\ game = <<>> /\ rom = <<>>
  /\ lvl = 0 /\ parent = 0
  /\ nodes = <<>>
  /\ dir_cache = <<>> /\ game_cache = <<>> /\ g_global = 0
  /\ done = 0
  /\ exc = "none"
  /\ out = NoDoc
  /\ result = "running"

\* ------------------------------------------------------------ discover()
\* os.walk(root) with the default onerror=None: a folder that cannot be
\* listed yields nothing and the walk goes on.  Files of a folder come
\* first (fs.sort()), then its sub-folders in sorted order (ds.sort()).
FilesIn(d) == { p[Len(d) + 1] : p \in { q \in fs : Len(q) = Len(d) + 1 /\ IsProperPrefix(d, q) } }
SubdirsIn(d) == { p[Len(d) + 1] : p \in { q \in fs : Len(q) > Len(d) + 1 /\ IsProperPrefix(d, q) } }

\* One element of discover's list: (abs_p, rel_p, rel_p.split("/")).
Item(p) == [rel_fp |-> JoinSlash(p), parts |-> SplitSlash(JoinSlash(p))]

RECURSIVE Walk(_, _), WalkDirs(_, _, _)
Walk(d, unlistable) ==
  IF d \in unlistable THEN <<>>
  ELSE LET fsSorted == SortNames(FilesIn(d))
           dsSorted == SortNames(SubdirsIn(d))
       IN [k \in 1..Len(fsSorted) |-> Item(d \o <<fsSorted[k]>>)]
          \o WalkDirs(d, dsSorted, unlistable)
WalkDirs(d, ds, unlistable) ==
  IF ds = <<>> THEN <<>>
  ELSE Walk(d \o <<Head(ds)>>, unlistable) \o WalkDirs(d, Tail(ds), unlistable)

\* --------------------------------------------------------- the path folder
\* a.name or "DAT"
Fallback == IF cfg.name # <<>> THEN cfg.name ELSE <<"D", "A", "T">>

\* Variant: at depth 0 the rom is named by the file's base name.
FoldNames_BaseNameAtZero(it) ==
  IF cfg.game_depth = 0
  THEN [dirs |-> <<>>, game |-> Fallback, rom |-> Last(it.parts)]
  ELSE [dirs |-> Take(it.parts, Max(cfg.game_depth - 1, 0)),
        game |-> IF Len(it.parts) >= cfg.game_depth
                 THEN it.parts[cfg.game_depth]
                 ELSE Fallback,
        rom  |-> IF Len(it.parts) > cfg.game_depth
                 THEN JoinSlash(Drop(it.parts, cfg.game_depth))
                 ELSE Last(it.parts)]

\* Variant: a path shorter than the depth takes its last segment as game.
FoldNames_ShortUsesLast(it) ==
  IF cfg.game_depth = 0
  THEN [dirs |-> <<>>, game |-> Fallback, rom |-> it.rel_fp]
  ELSE [dirs |-> Take(it.parts, Max(cfg.game_depth - 1, 0)),
        game |-> IF Len(it.parts) >= cfg.game_depth
                 THEN it.parts[cfg.game_depth]
                 ELSE Last(it.parts),
        rom  |-> IF Len(it.parts) > cfg.game_depth
                 THEN JoinSlash(Drop(it.parts, cfg.game_depth))
                 ELSE Last(it.parts)]

\* "decide names": dirs, game, rom before the loose-file rule.
FoldNames(it) ==
  IF cfg.game_depth = 0
  THEN [dirs |-> <<>>, game |-> Fallback, rom |-> it.rel_fp]
  ELSE [dirs |-> Take(it.parts, Max(cfg.game_depth - 1, 0)),
        game |-> IF Len(it.parts) >= cfg.game_depth
                 THEN it.parts[cfg.game_depth]
                 ELSE Fallback,
        rom  |-> IF Len(it.parts) > cfg.game_depth
                 THEN JoinSlash(Drop(it.parts, cfg.game_depth))
                 ELSE Last(it.parts)]

\* The test of `if game == rom:`.
IsLoose(f) == f.game = f.rom

\* Variant: `elif a.strip:`, the policy test dropped from the second branch.
LooseFiles_ParentFallsToStrip(f) ==
  IF f.game = f.rom
  THEN IF cfg.loose_files = "parent" /\ f.dirs # <<>>
       THEN [f EXCEPT !.game = Last(f.dirs), !.dirs = Front(f.dirs)]
       ELSE IF cfg.strip
            THEN [f EXCEPT !.game = SplitextRoot(f.game)]
            ELSE f
  ELSE f

\* The loose-file rule applied to a fold.
LooseFiles(f) ==
  IF IsLoose(f)
  THEN IF cfg.loose_files = "parent" /\ f.dirs # <<>>
       THEN [f EXCEPT !.game = Last(f.dirs), !.dirs = Front(f.dirs)]
       ELSE IF cfg.loose_files = "strip" /\ cfg.strip
            THEN [f EXCEPT !.game = SplitextRoot(f.game)]
            ELSE f
  ELSE f

Fold(it) == LooseFiles(FoldNames(it))

\* ---------------------------------------------------------- the tree builder
Node(tag, name, par, src) == [tag |-> tag, name |-> name, parent |-> par, src |-> src]

\* Variant: k = (lvl, "/".join(parts)), the whole path instead of the prefix.
DirKey_WholePath(l, it) == <<l, JoinSlash(it.parts)>>

\* k = (lvl, "/".join(parts[:lvl]))
DirKey(l, it) == <<l, JoinSlash(Take(it.parts, l))>>
\* gk = (len(dirs), "/".join(dirs + [game]))
GameKey(ds, g) == <<Len(ds), JoinSlash(ds \o <<g>>)>>

\* Variant: the global <game> is created whatever the depth.
Scaffold0_AlwaysGlobal ==
  << Node("header", <<>>, 0, <<>>), Node("game", Fallback, 0, <<>>) >>

\* root_el with its header and, at depth 0, the global <game>.
Scaffold0 ==
  IF cfg.game_depth = 0
  THEN << Node("header", <<>>, 0, <<>>), Node("game", Fallback, 0, <<>>) >>
  ELSE << Node("header", <<>>, 0, <<>>) >>

\* Variant: the built tree is written on the success path only.
DocToWrite_SuccessOnly ==
  IF exc = "none" THEN nodes ELSE << Node("header", <<>>, 0, <<>>) >>

\* What ElementTree(root_el).write serialises.
DocToWrite == nodes

\* ------------------------------------------------------------------ actions
\* main: files, total_bytes = discover(a.source)
Discover ==
  /\ pc = "discover"
  /\ \E u \in { {} } \cup { {d} : d \in DirsOf(fs) \cup {<<>>} } :
        /\ denied' = u
        /\ files' = Walk(<<>>, u)
  /\ pc' = "scaffold"
  /\ UNCHANGED << cfg, fs, idx, cur, dirs, game, rom, lvl, parent, nodes,
                  dir_cache, game_cache, g_global, done, exc, out, result >>

\* build_dat up to the try: scaffold, header, g_global, empty caches.
Scaffold ==
  /\ pc = "scaffold"
  /\ nodes' = Scaffold0
  /\ g_global' = IF cfg.game_depth = 0 THEN 2 ELSE 0
  /\ dir_cache' = <<>> /\ game_cache' = <<>>
  /\ pc' = "loop"
  /\ UNCHANGED << cfg, fs, denied, files, idx, cur, dirs, game, rom, lvl, parent,
                  done, exc, out, result >>

\* for abs_fp, rel_fp, parts in bar: decide names, loose-file rule.
NextItem ==
  /\ pc = "loop"
  /\ idx < Len(files)
  /\ idx' = idx + 1
  /\ cur' = files[idx + 1]
  /\ LET f == Fold(files[idx + 1])
     IN dirs' = f.dirs /\ game' = f.game /\ rom' = f.rom
  /\ pc' = "hash"
  /\ UNCHANGED << cfg, fs, denied, files, lvl, parent, nodes, dir_cache,
                  game_cache, g_global, done, exc, out, result >>

\* The iterator is exhausted: the try block ends normally.
LoopEnd ==
  /\ pc = "loop"
  /\ idx = Len(files)
  /\ pc' = "finally"
  /\ UNCHANGED << cfg, fs, denied, files, idx, cur, dirs, game, rom, lvl, parent,
                  nodes, dir_cache, game_cache, g_global, done, exc, out, result >>

\* os.path.getsize + hash_file succeed; parent = root_el.
HashOk ==
  /\ pc = "hash"
  /\ lvl' = 1 /\ parent' = 0
  /\ pc' = "dirs"
  /\ UNCHANGED << cfg, fs, denied, files, idx, cur, dirs, game, rom, nodes,
                  dir_cache, game_cache, g_global, done, exc, out, result >>

\* os.path.getsize or open() raises OSError (file unreadable or removed).
HashFail ==
  /\ pc = "hash"
  /\ exc' = "OSError"
  /\ pc' = "finally"
  /\ UNCHANGED << cfg, fs, denied, files, idx, cur, dirs, game, rom, lvl, parent,
                  nodes, dir_cache, game_cache, g_global, done, out, result >>

\* One iteration of `for lvl, d in enumerate(dirs, 1)`.
InsertDir ==
  /\ pc = "dirs"
  /\ lvl <= Len(dirs)
  /\ LET k == DirKey(lvl, cur)
     IN IF k \in DOMAIN dir_cache
        THEN /\ parent' = dir_cache[k]
             /\ UNCHANGED << nodes, dir_cache >>
        ELSE /\ nodes' = Append(nodes, Node("dir", dirs[lvl], parent, <<>>))
             /\ dir_cache' = (k :> (Len(nodes) + 1)) @@ dir_cache
             /\ parent' = Len(nodes) + 1
  /\ lvl' = lvl + 1
  /\ UNCHANGED << cfg, fs, denied, pc, files, idx, cur, dirs, game, rom,
                  game_cache, g_global, done, exc, out, result >>

\* game_el = g_global, or the cached / newly created <game>.
InsertGame ==
  /\ pc = "dirs"
  /\ lvl > Len(dirs)
  /\ IF cfg.game_depth = 0
     THEN /\ parent' = g_global
          /\ UNCHANGED << nodes, game_cache >>
     ELSE LET gk == GameKey(dirs, game)
          IN IF gk \in DOMAIN game_cache
             THEN /\ parent' = game_cache[gk]
                  /\ UNCHANGED << nodes, game_cache >>
             ELSE /\ nodes' = Append(nodes, Node("game", game, parent, <<>>))
                  /\ game_cache' = (gk :> (Len(nodes) + 1)) @@ game_cache
                  /\ parent' = Len(nodes) + 1
  /\ pc' = "rom"
  /\ UNCHANGED << cfg, fs, denied, files, idx, cur, dirs, game, rom, lvl,
                  dir_cache, g_global, done, exc, out, result >>

\* ET.SubElement(game_el, "rom", name=rom, size, crc, md5, sha1); the digests
\* of a file are represented by the file they were computed from.
InsertRom ==
  /\ pc = "rom"
  /\ nodes' = Append(nodes, Node("rom", rom, parent, cur.rel_fp))
  /\ done' = done + 1
  /\ pc' = "loop"
  /\ UNCHANGED << cfg, fs, denied, files, idx, cur, dirs, game, rom, lvl, parent,
                  dir_cache, game_cache, g_global, exc, out, result >>

\* finally: close the bars, ET.indent, then ElementTree.write opens out_path
\* for writing: the file exists, truncated.
Finally ==
  /\ pc = "finally"
  /\ out' = [status |-> "partial", nodes |-> <<>>]
  /\ pc' = "writing"
  /\ UNCHANGED << cfg, fs, denied, files, idx, cur, dirs, game, rom, lvl, parent,
                  nodes, dir_cache, game_cache, g_global, done, exc, result >>

\* The serialisation completes and the file is closed.
WriteFinish ==
  /\ pc = "writing"
  /\ out' = [status |-> "complete", nodes |-> DocToWrite]
  /\ pc' = "unwind"
  /\ UNCHANGED << cfg, fs, denied, files, idx, cur, dirs, game, rom, lvl, parent,
                  nodes, dir_cache, game_cache, g_global, done, exc, result >>

\* KeyboardInterrupt (Ctrl-C) at any point of the run.
\*  - in discover: outside main's try, the process dies with the traceback;
\*  - in build_dat before its try: caught by main, nothing is written;
\*  - inside the try: the finally block runs;
\*  - inside the finally block: it is abandoned where it stands, before the
\*    file is opened or while it is being written.
Interrupt ==
  /\ \/ /\ pc = "discover"
        /\ pc' = "exit" /\ result' = "uncaught KeyboardInterrupt"
        /\ exc' = "KeyboardInterrupt"
     \/ /\ pc = "scaffold"
        /\ pc' = "unwind" /\ exc' = "KeyboardInterrupt"
        /\ UNCHANGED result
     \/ /\ pc \in {"loop", "hash", "dirs", "rom"}
        /\ pc' = "finally" /\ exc' = "KeyboardInterrupt"
        /\ UNCHANGED result
     \/ /\ pc \in {"finally", "writing"}
        /\ pc' = "unwind" /\ exc' = "KeyboardInterrupt"
        /\ UNCHANGED result
  /\ UNCHANGED << cfg, fs, denied, files, idx, cur, dirs, game, rom, lvl, parent,
                  nodes, dir_cache, game_cache, g_global, done, out >>

\* build_dat returns or re-raises; main catches KeyboardInterrupt only.
Unwind ==
  /\ pc = "unwind"
  /\ result' = CASE exc = "none" -> "ok"
                 [] exc = "KeyboardInterrupt" -> "interrupted"
                 [] exc = "OSError" -> "uncaught OSError"
  /\ pc' = "exit"
  /\ UNCHANGED << cfg, fs, denied, files, idx, cur, dirs, game, rom, lvl, parent,
                  nodes, dir_cache, game_cache, g_global, done, exc, out >>

Next ==
  \/ Discover \/ Scaffold \/ NextItem \/ LoopEnd \/ HashOk \/ HashFail
  \/ InsertDir \/ InsertGame \/ InsertRom \/ Finally
  \/ WriteFinish \/ Interrupt \/ Unwind

Spec == Init /\ [][Next]_vars

\* ------------------------------------------------------ reading a document
RomsOf(ns)  == SelectSeq(ns, LAMBDA n : n.tag = "rom")
GamesOf(ns) == { i \in 1..Len(ns) : ns[i].tag = "game" }
DirsIn(ns)  == { i \in 1..Len(ns) : ns[i].tag = "dir" }
RomIds(ns)  == { i \in 1..Len(ns) : ns[i].tag = "rom" }
HasHeader(ns) == Len(ns) >= 1 /\ ns[1].tag = "header" /\ ns[1].parent = 0

\* Names on the way from root_el down to element i.
RECURSIVE PathNames(_, _)
PathNames(ns, i) ==
  IF ns[i].parent = 0 THEN <<ns[i].name>>
  ELSE PathNames(ns, ns[i].parent) \o <<ns[i].name>>

\* The scan item a <rom> was made from.
ItemOf(n) == [rel_fp |-> n.src, parts |-> SplitSlash(n.src)]

JustFolded == pc = "hash"
Raw == FoldNames(cur)

\* ------------------------------------------------------------------ claims

\* C1: when the loop is cut short (Ctrl-C or an unreadable file) after
\* `done` items were fully processed, the document that gets written has the
\* header and exactly the <rom> records of the first `done` enumerated items,
\* each appended in enumeration order, and none of any later item.  (nodes
\* lists the elements in creation order, which is the order of the children
\* under every parent.)
C1_PartialDocumentHoldsProcessedItems ==
  out.status = "complete" =>
    LET roms == RomsOf(out.nodes)
    IN /\ HasHeader(out.nodes)
       /\ Len(roms) = done
       /\ \A k \in 1..done :
            /\ roms[k].src = files[k].rel_fp
            /\ roms[k].name = Fold(files[k]).rom

C1_Witness ==
  /\ out.status = "complete"
  /\ exc # "none"
  /\ done >= 1
  /\ done < Len(files)

\* C2: whenever the process has terminated, the document is at the output
\* path, fully formed, and holds all the work completed before.
C2_DocumentAlwaysPresentAtExit ==
  pc = "exit" =>
    /\ out.status = "complete"
    /\ Len(RomsOf(out.nodes)) = done

\* C3: at depth 0 the document has exactly one <game>, no <dir>, and every
\* <rom> is named by the full relative path of its file.
C3_DepthZeroSingleGame ==
  (cfg.game_depth = 0 /\ out.status = "complete") =>
    /\ Cardinality(GamesOf(out.nodes)) = 1
    /\ DirsIn(out.nodes) = {}
    /\ \A i \in RomIds(out.nodes) :
         /\ out.nodes[i].name = out.nodes[i].src
         /\ out.nodes[i].name \in { JoinSlash(p) : p \in fs }
         /\ out.nodes[i].parent \in GamesOf(out.nodes)

C3_Witness ==
  /\ cfg.game_depth = 0
  /\ out.status = "complete"
  /\ \E i \in RomIds(out.nodes) : \E k \in 1..Len(out.nodes[i].name) :
        out.nodes[i].name[k] = "/"
  /\ Cardinality(RomIds(out.nodes)) >= 2

\* C4 as stated: an empty source root gives, for every depth, a document
\* with the header only.
C4_EmptyRootHeaderOnly ==
  (files = <<>> /\ out.status = "complete") =>
    \A i \in 1..Len(out.nodes) : out.nodes[i].tag = "header"

\* C4 amended: an empty source root does not error; the document holds the
\* header only when depth >= 1, and the header plus the one empty global
\* <game> (named a.name or "DAT") when depth = 0; never a <dir> or a <rom>.
C4_EmptyRootAmended ==
  (files = <<>> /\ pc = "exit" /\ exc = "none") =>
    /\ result = "ok"
    /\ out.status = "complete"
    /\ HasHeader(out.nodes)
    /\ DirsIn(out.nodes) = {} /\ RomIds(out.nodes) = {}
    /\ IF cfg.game_depth = 0
       THEN /\ Len(out.nodes) = 2
            /\ out.nodes[2] = Node("game", Fallback, 0, <<>>)
       ELSE Len(out.nodes) = 1

C4_Witness ==
  /\ fs = {}
  /\ files = <<>>
  /\ pc = "exit"
  /\ result = "ok"
  /\ cfg.game_depth = 0

\* C5: with depth >= 1 no element has two <dir> children or two <game>
\* children of the same name, and every <rom> lies under the one <game>
\* reached from root_el along its item's dirs and game.
C5_NoDuplicateNodes ==
  cfg.game_depth >= 1 =>
    /\ \A i \in DirsIn(nodes) \cup GamesOf(nodes) :
         \A j \in DirsIn(nodes) \cup GamesOf(nodes) :
           (i # j /\ nodes[i].tag = nodes[j].tag /\ nodes[i].parent = nodes[j].parent)
             => nodes[i].name # nodes[j].name
    /\ \A r \in RomIds(nodes) :
         LET f == Fold(ItemOf(nodes[r]))
         IN /\ nodes[r].parent \in GamesOf(nodes)
            /\ PathNames(nodes, nodes[r].parent) = f.dirs \o <<f.game>>
    /\ \A i \in DirsIn(nodes) \cup GamesOf(nodes) :
         nodes[i].parent = 0 \/ nodes[i].parent \in DirsIn(nodes)

C5_Witness ==
  /\ cfg.game_depth >= 2
  /\ \E d \in DirsIn(nodes) : \E r1 \in RomIds(nodes) : \E r2 \in RomIds(nodes) :
        /\ r1 # r2
        /\ nodes[nodes[r1].parent].parent = d
        /\ nodes[nodes[r2].parent].parent = d

\* C6: when a folder cannot be listed during the scan, the run is fatal and
\* no document is produced.
C6_UnlistableFolderAborts ==
  denied # {} => (out.status = "absent" /\ result # "ok")

\* C7: under --loose-files parent, for an item whose folded game equals its
\* folded rom: with non-empty dirs the game becomes the last of dirs and dirs
\* loses that element; with empty dirs (always so at depth 1) game and dirs
\* stay as folded, no extension being stripped; the rom is unchanged.
C7_ParentPolicy ==
  (JustFolded /\ cfg.loose_files = "parent" /\ Raw.game = Raw.rom) =>
    /\ IF Raw.dirs # <<>>
       THEN game = Last(Raw.dirs) /\ dirs = Front(Raw.dirs)
       ELSE game = Raw.game /\ dirs = Raw.dirs
    /\ rom = Raw.rom
    /\ cfg.game_depth = 1 => Raw.dirs = <<>>

C7_Witness ==
  /\ JustFolded
  /\ cfg.loose_files = "parent"
  /\ Raw.game = Raw.rom
  /\ Raw.dirs # <<>>
  /\ cfg.strip

C9_LooseOnlyWithoutSubPath ==
  (JustFolded /\ cfg.game_depth >= 1 /\ IsLoose(Raw)) =>
    Len(cur.parts) <= cfg.game_depth

\* C10: with depth >= 1 no <game> holds two <rom> records of the same name.
C10_NoDuplicateRomNames ==
  cfg.game_depth >= 1 =>
    \A i \in RomIds(nodes) : \A j \in RomIds(nodes) :
      (i # j /\ nodes[i].parent = nodes[j].parent) => nodes[i].name # nodes[j].name

====
